---- MODULE Spec2Model ----
(***************************************************************************)
(* Model of perception/video_recorder.py: the VideoRecorder controller and *)
(* the _Camera worker processes it spawns, which share one command queue.  *)
(* Controller calls are made by a single caller, one at a time; every      *)
(* _Camera process runs concurrently with the caller and with the others.  *)
(***************************************************************************)
EXTENDS Naturals, Sequences, FiniteSets, TLC

\* Bounds of the model.
MaxWorkers == 2      \* calls of start() explored (each spawns a _Camera)
MaxCmds == 3         \* commands put on the queue over a run
MaxFrames == 1       \* frames written to one video writer

Files == {"clip1.avi", "out.avi"}
NoFile == "none"
Ops == {"start", "start_recording", "stop_recording", "stop"}

Workers == 1..MaxWorkers

VARIABLES
    started,        \* VideoRecorder._started
    recording,      \* VideoRecorder._recording
    cmd_q,          \* VideoRecorder._cmd_q: the messages in the queue's pipe
    buffer,         \* VideoRecorder._cmd_q: what put() has buffered, not yet in the pipe
    rlock,          \* VideoRecorder._cmd_q: the process holding its reader lock, or 0
    actual_camera,  \* VideoRecorder._actual_camera is opened (not released)
    camera,         \* VideoRecorder._camera: index of the last _Camera, 0 if unset
    procs,          \* the _Camera processes, by order of creation
    encoders,       \* the cv2.VideoWriter objects, by order of creation
    pc,             \* where the caller is: "idle", "body", "terminate"
    op, arg,        \* the controller call in progress, or the last one
    result,         \* its outcome: "none" while running, "ok", "InvalidStateError"
    enqueued,       \* history: commands given to put(), in order
    dequeued,       \* history: commands received by a get(), in order
    applied,        \* history: commands a _Camera carried out to the end, in order
    script          \* history: position in the end-to-end scenario, 0 once off it

vars == <<started, recording, cmd_q, buffer, rlock, actual_camera, camera, procs, encoders,
          pc, op, arg, result, enqueued, dequeued, applied, script>>

StartCmd(f) == [tag |-> "start", file |-> f]
StopCmd == [tag |-> "stop", file |-> NoFile]
NoCmd == [tag |-> "none", file |-> NoFile]

\* _Camera.__init__: not recording, no writer; the process is not running yet.
\* capture: whether the process's own copy of the capture, taken when it is
\* forked, is opened.
Unborn == [status |-> "unborn", pc |-> "poll", recording |-> FALSE, out |-> 0,
           cmd |-> NoCmd, error |-> "none", capture |-> FALSE]

\* VideoRecorder.__init__ with a device that opens.
InitCommon ==
    /\ started = FALSE
    /\ recording = FALSE
    /\ cmd_q = <<>>
    /\ buffer = <<>>
    /\ rlock = 0
    /\ actual_camera = TRUE
    /\ camera = 0
    /\ procs = [w \in Workers |-> Unborn]
    /\ encoders = <<>>
    /\ pc = "idle"
    /\ op = "none"
    /\ arg = NoFile
    /\ result = "none"
    /\ enqueued = <<>>
    /\ dequeued = <<>>
    /\ applied = <<>>

Init == InitCommon /\ script = 1

\* The end-to-end scenario: start(); start_recording("clip1.avi"); wait for a
\* written frame; stop_recording(); stop().  script is the position of the
\* caller in it while the calls made so far are exactly its calls, 0 otherwise.
ScenarioOps == <<"start", "start_recording", "stop_recording", "stop">>
ScenarioFile == "clip1.avi"

FrameWritten == \E e \in 1..Len(encoders) : encoders[e].frames >= 1

OnScenario(o, f) ==
    /\ script \in 1..Len(ScenarioOps)
    /\ o = ScenarioOps[script]
    /\ (o = "start_recording") => f = ScenarioFile
    /\ (o = "stop_recording") => FrameWritten

ScenarioDone == script = Len(ScenarioOps) + 1 /\ pc = "idle"

----------------------------------------------------------------------------
\* The caller invokes one of the four methods.
Call ==
    /\ pc = "idle"
    /\ \E o \in Ops, f \in Files \cup {NoFile} :
        /\ (o = "start_recording") <=> (f # NoFile)
        /\ (o = "start") => camera < MaxWorkers
        /\ (o \in {"start_recording", "stop_recording"}) => Len(enqueued) < MaxCmds
        /\ op' = o
        /\ arg' = f
        /\ script' = IF OnScenario(o, f) THEN script + 1 ELSE 0
    /\ pc' = "body"
    /\ result' = "none"
    /\ UNCHANGED <<started, recording, cmd_q, buffer, rlock, actual_camera, camera, procs,
                   encoders, enqueued, dequeued, applied>>

\* VideoRecorder.start: no check of _started; a new _Camera is created and run.
start ==
    /\ pc = "body" /\ op = "start"
    /\ started' = TRUE
    /\ camera' = camera + 1
    /\ procs' = [procs EXCEPT ![camera + 1] =
                    [Unborn EXCEPT !.status = "alive", !.capture = actual_camera]]
    /\ pc' = "idle"
    /\ result' = "ok"
    /\ UNCHANGED <<recording, cmd_q, buffer, rlock, actual_camera, encoders, op, arg,
                   enqueued, dequeued, applied, script>>

\* start_recording without its check of _recording.
start_recording_no_recording_check ==
    /\ pc = "body" /\ op = "start_recording"
    /\ IF ~started
         THEN /\ result' = "InvalidStateError"
              /\ UNCHANGED <<recording, buffer, enqueued>>
         ELSE /\ recording' = TRUE
              /\ buffer' = Append(buffer, StartCmd(arg))
              /\ enqueued' = Append(enqueued, StartCmd(arg))
              /\ result' = "ok"
    /\ pc' = "idle"
    /\ UNCHANGED <<started, cmd_q, rlock, actual_camera, camera, procs, encoders,
                   op, arg,
                   dequeued, applied, script>>

\* start_recording without its check of _started.
start_recording_no_started_check ==
    /\ pc = "body" /\ op = "start_recording"
    /\ IF recording
         THEN /\ result' = "InvalidStateError"
              /\ UNCHANGED <<recording, buffer, enqueued>>
         ELSE /\ recording' = TRUE
              /\ buffer' = Append(buffer, StartCmd(arg))
              /\ enqueued' = Append(enqueued, StartCmd(arg))
              /\ result' = "ok"
    /\ pc' = "idle"
    /\ UNCHANGED <<started, cmd_q, rlock, actual_camera, camera, procs, encoders,
                   op, arg,
                   dequeued, applied, script>>

\* VideoRecorder.start_recording
start_recording ==
    /\ pc = "body" /\ op = "start_recording"
    /\ IF ~started \/ recording
         THEN /\ result' = "InvalidStateError"
              /\ UNCHANGED <<recording, buffer, enqueued>>
         ELSE /\ recording' = TRUE
              /\ buffer' = Append(buffer, StartCmd(arg))
              /\ enqueued' = Append(enqueued, StartCmd(arg))
              /\ result' = "ok"
    /\ pc' = "idle"
    /\ UNCHANGED <<started, cmd_q, rlock, actual_camera, camera, procs, encoders,
                   op, arg,
                   dequeued, applied, script>>

\* stop_recording without its check of _recording.
stop_recording_no_check ==
    /\ pc = "body" /\ op = "stop_recording"
    /\ buffer' = Append(buffer, StopCmd)
    /\ enqueued' = Append(enqueued, StopCmd)
    /\ recording' = FALSE
    /\ result' = "ok"
    /\ pc' = "idle"
    /\ UNCHANGED <<started, cmd_q, rlock, actual_camera, camera, procs, encoders,
                   op, arg,
                   dequeued, applied, script>>

\* VideoRecorder.stop_recording: checks _recording only.
stop_recording ==
    /\ pc = "body" /\ op = "stop_recording"
    /\ IF ~recording
         THEN /\ result' = "InvalidStateError"
              /\ UNCHANGED <<recording, buffer, enqueued>>
         ELSE /\ buffer' = Append(buffer, StopCmd)
              /\ enqueued' = Append(enqueued, StopCmd)
              /\ recording' = FALSE
              /\ result' = "ok"
    /\ pc' = "idle"
    /\ UNCHANGED <<started, cmd_q, rlock, actual_camera, camera, procs, encoders,
                   op, arg,
                   dequeued, applied, script>>

\* stop that also clears _recording.
stop_clears_recording ==
    /\ pc = "body" /\ op = "stop"
    /\ IF ~started
         THEN /\ result' = "InvalidStateError"
              /\ pc' = "idle"
              /\ UNCHANGED <<started, actual_camera, recording>>
         ELSE /\ started' = FALSE
              /\ actual_camera' = FALSE
              /\ recording' = FALSE
              /\ pc' = "terminate"
              /\ UNCHANGED result
    /\ UNCHANGED <<cmd_q, buffer, rlock, camera, procs, encoders, op, arg,
                   enqueued, dequeued, applied, script>>

\* stop without its check of _started.
stop_no_check ==
    /\ pc = "body" /\ op = "stop"
    /\ started' = FALSE
    /\ actual_camera' = FALSE
    /\ pc' = "terminate"
    /\ UNCHANGED <<result, recording, cmd_q, buffer, rlock, camera, procs, encoders, op, arg,
                   enqueued, dequeued, applied, script>>

\* VideoRecorder.stop up to the release of the camera.
stop ==
    /\ pc = "body" /\ op = "stop"
    /\ IF ~started
         THEN /\ result' = "InvalidStateError"
              /\ pc' = "idle"
              /\ UNCHANGED <<started, actual_camera>>
         ELSE /\ started' = FALSE
              /\ actual_camera' = FALSE
              /\ pc' = "terminate"
              /\ UNCHANGED result
    /\ UNCHANGED <<recording, cmd_q, buffer, rlock, camera, procs, encoders, op, arg,
                   enqueued, dequeued, applied, script>>

\* stop that returns without terminating the process.
stop_terminate_skipped ==
    /\ pc = "terminate"
    /\ pc' = "idle"
    /\ result' = "ok"
    /\ UNCHANGED <<started, recording, cmd_q, buffer, rlock, actual_camera, camera, procs,
                   encoders, op, arg, enqueued, dequeued, applied, script>>

\* VideoRecorder.stop, last line: self._camera.terminate().  The process is
\* killed wherever it is (pc "gone": it has no position any more); what it
\* held stays as it was, the queue's reader lock included.
stop_terminate ==
    /\ pc = "terminate"
    /\ procs' = [procs EXCEPT ![camera] =
                    IF @.status = "alive"
                      THEN [@ EXCEPT !.status = "terminated", !.pc = "gone"]
                      ELSE @]
    /\ pc' = "idle"
    /\ result' = "ok"
    /\ UNCHANGED <<started, recording, cmd_q, buffer, rlock, actual_camera, camera, encoders,
                   op, arg, enqueued, dequeued, applied, script>>

----------------------------------------------------------------------------
\* The queue's feeder thread, in the controller's process: it moves what
\* put() buffered into the pipe, in order, some time after put() returned.
feed ==
    /\ buffer # <<>>
    /\ cmd_q' = Append(cmd_q, Head(buffer))
    /\ buffer' = Tail(buffer)
    /\ UNCHANGED <<started, recording, rlock, actual_camera, camera, procs,
                   encoders, pc, op, arg, result, enqueued, dequeued, applied,
                   script>>

\* _Camera.run, `if not self.cmd_q.empty()`: empty() looks at the pipe.
run_empty(w) ==
    /\ procs[w].status = "alive" /\ procs[w].pc = "poll"
    /\ procs' = [procs EXCEPT ![w].pc = IF cmd_q # <<>> THEN "get" ELSE "rec"]
    /\ UNCHANGED <<started, recording, cmd_q, buffer, rlock, actual_camera, camera, encoders,
                   pc, op, arg, result, enqueued, dequeued, applied, script>>

\* _Camera.run, `cmd = self.cmd_q.get()`, first part: get() takes the
\* queue's reader lock, waiting while another process holds it.
run_get_acquire(w) ==
    /\ procs[w].status = "alive" /\ procs[w].pc = "get"
    /\ rlock = 0
    /\ rlock' = w
    /\ procs' = [procs EXCEPT ![w].pc = "recv"]
    /\ UNCHANGED <<started, recording, cmd_q, buffer, actual_camera, camera,
                   encoders, pc, op, arg, result, enqueued, dequeued, applied,
                   script>>

\* get(), second part: with the lock held, receive the first message of the
\* pipe, waiting while there is none.
run_get_recv(w) ==
    /\ procs[w].status = "alive" /\ procs[w].pc = "recv"
    /\ cmd_q # <<>>
    /\ procs' = [procs EXCEPT ![w].cmd = Head(cmd_q), ![w].pc = "unlock"]
    /\ cmd_q' = Tail(cmd_q)
    /\ dequeued' = Append(dequeued, Head(cmd_q))
    /\ UNCHANGED <<started, recording, buffer, rlock, actual_camera, camera,
                   encoders, pc, op, arg, result, enqueued, applied, script>>

\* get(), last part: release the reader lock and return the message.
run_get_release(w) ==
    /\ procs[w].status = "alive" /\ procs[w].pc = "unlock"
    /\ rlock' = 0
    /\ procs' = [procs EXCEPT ![w].pc = "cmd"]
    /\ UNCHANGED <<started, recording, cmd_q, buffer, actual_camera, camera,
                   encoders, pc, op, arg, result, enqueued, dequeued, applied,
                   script>>

\* The branch on cmd[0] with `self.recording = True` ahead of the isOpened test.
run_cmd_flag_before_test(w) ==
    /\ procs[w].status = "alive" /\ procs[w].pc = "cmd"
    /\ IF procs[w].cmd.tag = "stop"
         THEN IF procs[w].out = 0
                THEN /\ procs' = [procs EXCEPT ![w].status = "raised",
                                               ![w].error = "AttributeError"]
                     /\ UNCHANGED <<encoders, applied>>
                ELSE /\ encoders' = [encoders EXCEPT ![procs[w].out].state =
                                        IF @ = "open" THEN "closed" ELSE @]
                     /\ procs' = [procs EXCEPT ![w].recording = FALSE,
                                               ![w].pc = "rec"]
                     /\ applied' = Append(applied, procs[w].cmd)
         ELSE \E ok \in BOOLEAN :
                /\ encoders' = Append(encoders,
                                  [file |-> procs[w].cmd.file,
                                   state |-> IF ok THEN "open" ELSE "unopened",
                                   frames |-> 0])
                /\ IF ok
                     THEN /\ procs' = [procs EXCEPT ![w].out = Len(encoders) + 1,
                                                    ![w].recording = TRUE,
                                                    ![w].pc = "rec"]
                          /\ applied' = Append(applied, procs[w].cmd)
                     ELSE /\ procs' = [procs EXCEPT ![w].out = Len(encoders) + 1,
                                                    ![w].recording = TRUE,
                                                    ![w].status = "raised",
                                                    ![w].error = "EncoderOpenError"]
                          /\ UNCHANGED applied
    /\ UNCHANGED <<started, recording, cmd_q, buffer, rlock, actual_camera, camera,
                   pc, op, arg, result, enqueued, dequeued, script>>

\* The branch on cmd[0] with a 'stop' that releases the writer and leaves
\* self.recording set.
run_cmd_stop_keeps_flag(w) ==
    /\ procs[w].status = "alive" /\ procs[w].pc = "cmd"
    /\ IF procs[w].cmd.tag = "stop"
         THEN IF procs[w].out = 0
                THEN /\ procs' = [procs EXCEPT ![w].status = "raised",
                                               ![w].error = "AttributeError"]
                     /\ UNCHANGED <<encoders, applied>>
                ELSE /\ encoders' = [encoders EXCEPT ![procs[w].out].state =
                                        IF @ = "open" THEN "closed" ELSE @]
                     /\ procs' = [procs EXCEPT ![w].pc = "rec"]
                     /\ applied' = Append(applied, procs[w].cmd)
         ELSE \E ok \in BOOLEAN :
                /\ encoders' = Append(encoders,
                                  [file |-> procs[w].cmd.file,
                                   state |-> IF ok THEN "open" ELSE "unopened",
                                   frames |-> 0])
                /\ IF ok
                     THEN /\ procs' = [procs EXCEPT ![w].out = Len(encoders) + 1,
                                                    ![w].recording = TRUE,
                                                    ![w].pc = "rec"]
                          /\ applied' = Append(applied, procs[w].cmd)
                     ELSE /\ procs' = [procs EXCEPT ![w].out = Len(encoders) + 1,
                                                    ![w].status = "raised",
                                                    ![w].error = "EncoderOpenError"]
                          /\ UNCHANGED applied
    /\ UNCHANGED <<started, recording, cmd_q, buffer, rlock, actual_camera, camera,
                   pc, op, arg, result, enqueued, dequeued, script>>

\* The branch on cmd[0] with a 'stop' that tests `self.out is not None` first.
run_cmd_stop_noop(w) ==
    /\ procs[w].status = "alive" /\ procs[w].pc = "cmd"
    /\ IF procs[w].cmd.tag = "stop"
         THEN IF procs[w].out = 0
                THEN /\ procs' = [procs EXCEPT ![w].recording = FALSE,
                                               ![w].pc = "rec"]
                     /\ applied' = Append(applied, procs[w].cmd)
                     /\ UNCHANGED encoders
                ELSE /\ encoders' = [encoders EXCEPT ![procs[w].out].state =
                                        IF @ = "open" THEN "closed" ELSE @]
                     /\ procs' = [procs EXCEPT ![w].recording = FALSE,
                                               ![w].pc = "rec"]
                     /\ applied' = Append(applied, procs[w].cmd)
         ELSE \E ok \in BOOLEAN :
                /\ encoders' = Append(encoders,
                                  [file |-> procs[w].cmd.file,
                                   state |-> IF ok THEN "open" ELSE "unopened",
                                   frames |-> 0])
                /\ IF ok
                     THEN /\ procs' = [procs EXCEPT ![w].out = Len(encoders) + 1,
                                                    ![w].recording = TRUE,
                                                    ![w].pc = "rec"]
                          /\ applied' = Append(applied, procs[w].cmd)
                     ELSE /\ procs' = [procs EXCEPT ![w].out = Len(encoders) + 1,
                                                    ![w].status = "raised",
                                                    ![w].error = "EncoderOpenError"]
                          /\ UNCHANGED applied
    /\ UNCHANGED <<started, recording, cmd_q, buffer, rlock, actual_camera, camera,
                   pc, op, arg, result, enqueued, dequeued, script>>

\* _Camera.run, the branch on cmd[0].
run_cmd(w) ==
    /\ procs[w].status = "alive" /\ procs[w].pc = "cmd"
    /\ IF procs[w].cmd.tag = "stop"
         THEN IF procs[w].out = 0
                THEN \* self.out is None: AttributeError ends the process
                     /\ procs' = [procs EXCEPT ![w].status = "raised",
                                               ![w].error = "AttributeError"]
                     /\ UNCHANGED <<encoders, applied>>
                ELSE /\ encoders' = [encoders EXCEPT ![procs[w].out].state =
                                        IF @ = "open" THEN "closed" ELSE @]
                     /\ procs' = [procs EXCEPT ![w].recording = FALSE,
                                               ![w].pc = "rec"]
                     /\ applied' = Append(applied, procs[w].cmd)
         ELSE \E ok \in BOOLEAN :
                /\ encoders' = Append(encoders,
                                  [file |-> procs[w].cmd.file,
                                   state |-> IF ok THEN "open" ELSE "unopened",
                                   frames |-> 0])
                /\ IF ok
                     THEN /\ procs' = [procs EXCEPT ![w].out = Len(encoders) + 1,
                                                    ![w].recording = TRUE,
                                                    ![w].pc = "rec"]
                          /\ applied' = Append(applied, procs[w].cmd)
                     ELSE /\ procs' = [procs EXCEPT ![w].out = Len(encoders) + 1,
                                                    ![w].status = "raised",
                                                    ![w].error = "EncoderOpenError"]
                          /\ UNCHANGED applied
    /\ UNCHANGED <<started, recording, cmd_q, buffer, rlock, actual_camera, camera,
                   pc, op, arg, result, enqueued, dequeued, script>>

\* The frame step with a failed read taken as the end of the recording.
run_record_stops_on_miss(w) ==
    /\ procs[w].status = "alive" /\ procs[w].pc = "rec"
    /\ IF procs[w].recording
         THEN \E ret_val \in (IF procs[w].capture THEN BOOLEAN ELSE {FALSE}) :
                IF ret_val
                  THEN /\ encoders[procs[w].out].frames < MaxFrames
                       /\ encoders' = [encoders EXCEPT ![procs[w].out].frames = @ + 1]
                       /\ procs' = [procs EXCEPT ![w].pc = "poll"]
                  ELSE /\ UNCHANGED encoders
                       /\ procs' = [procs EXCEPT ![w].pc = "poll",
                                                 ![w].recording = FALSE]
         ELSE /\ UNCHANGED encoders
              /\ procs' = [procs EXCEPT ![w].pc = "poll"]
    /\ UNCHANGED <<started, recording, cmd_q, buffer, rlock, actual_camera, camera,
                   pc, op, arg, result, enqueued, dequeued, applied, script>>

\* The frame step testing `self.out is not None` in place of self.recording.
run_record_tests_out(w) ==
    /\ procs[w].status = "alive" /\ procs[w].pc = "rec"
    /\ IF procs[w].out # 0
         THEN \E ret_val \in (IF procs[w].capture THEN BOOLEAN ELSE {FALSE}) :
                IF ret_val
                  THEN /\ encoders[procs[w].out].frames < MaxFrames
                       /\ encoders' = [encoders EXCEPT ![procs[w].out].frames = @ + 1]
                  ELSE UNCHANGED encoders
         ELSE UNCHANGED encoders
    /\ procs' = [procs EXCEPT ![w].pc = "poll"]
    /\ UNCHANGED <<started, recording, cmd_q, buffer, rlock, actual_camera, camera,
                   pc, op, arg, result, enqueued, dequeued, applied, script>>

\* _Camera.run, `if self.recording:` read a frame and write it.
\* camera.read() may or may not deliver a frame.  The process reads its own
\* copy of the capture: one forked after the release delivers none, one forked
\* before is not touched by the release in the controller's process.
\* frames counts the calls of out.write on a writer, whatever its state.
run_record(w) ==
    /\ procs[w].status = "alive" /\ procs[w].pc = "rec"
    /\ IF procs[w].recording
         THEN \E ret_val \in (IF procs[w].capture THEN BOOLEAN ELSE {FALSE}) :
                IF ret_val
                  THEN /\ encoders[procs[w].out].frames < MaxFrames
                       /\ encoders' = [encoders EXCEPT ![procs[w].out].frames = @ + 1]
                  ELSE UNCHANGED encoders
         ELSE UNCHANGED encoders
    /\ procs' = [procs EXCEPT ![w].pc = "poll"]
    /\ UNCHANGED <<started, recording, cmd_q, buffer, rlock, actual_camera, camera,
                   pc, op, arg, result, enqueued, dequeued, applied, script>>

run ==
    \E w \in Workers :
        \/ run_empty(w)
        \/ run_get_acquire(w)
        \/ run_get_recv(w)
        \/ run_get_release(w)
        \/ run_cmd(w)
        \/ run_record(w)

Next ==
    \/ Call
    \/ start
    \/ start_recording
    \/ stop_recording
    \/ stop
    \/ stop_terminate
    \/ feed
    \/ run

Spec == Init /\ [][Next]_vars

\* Whether the call o returns normally in the current state.
Succeeds(o) ==
    \/ o = "start"
    \/ o = "start_recording" /\ started /\ ~recording
    \/ o = "stop_recording" /\ recording
    \/ o = "stop" /\ started

\* A caller that makes only calls that return normally.
CallOk == Call /\ Succeeds(op')

NextClean ==
    \/ CallOk
    \/ start
    \/ start_recording
    \/ stop_recording
    \/ stop
    \/ stop_terminate
    \/ feed
    \/ run

SpecClean == Init /\ [][NextClean]_vars

\* Scheduling: every live process keeps running, the feeder thread too, and
\* a call that was made runs to its return.  The caller is free never to call again.
Fairness ==
    /\ \A w \in Workers :
          WF_vars(run_empty(w) \/ run_get_acquire(w) \/ run_get_recv(w)
                    \/ run_get_release(w) \/ run_cmd(w) \/ run_record(w))
    /\ WF_vars(feed)
    /\ WF_vars(start \/ start_recording \/ stop_recording \/ stop \/ stop_terminate)

SpecFair == Init /\ [][Next]_vars /\ Fairness

----------------------------------------------------------------------------
\* Helpers of the properties.
IsPrefix(a, b) == Len(a) <= Len(b) /\ SubSeq(b, 1, Len(a)) = a

\* The caller's step: the only steps that change pc.
CallerStep == pc' # pc

\* The commands waiting in the queue: those in the pipe, then those put() has
\* buffered.
Waiting == cmd_q \o buffer

Opened == {e \in 1..Len(encoders) : encoders[e].state \in {"open", "closed"}}

\* C1 (as claimed): start() on a started recorder fails with InvalidStateError
\* and spawns no further _Camera process.
C1_StartWhenStartedFails ==
    [][(pc = "body" /\ op = "start" /\ started /\ CallerStep)
          => (result' = "InvalidStateError" /\ procs' = procs /\ camera' = camera)]_vars

\* C2 (as claimed): the commands the workers have carried out are, in order,
\* a prefix of the commands the controller has enqueued: none is lost,
\* reordered or duplicated on the way.
C2_AppliedPrefixOfEnqueued ==
    IsPrefix(dequeued, enqueued) /\ IsPrefix(applied, enqueued)

\* C3 (as claimed): in the end-to-end scenario no call raises, and once stop()
\* has returned exactly one encoder has been opened, for clip1.avi, and it has
\* been closed.
C3_ScenarioOpensAndCloses ==
    /\ (script > 1) => result # "InvalidStateError"
    /\ ScenarioDone =>
          /\ Cardinality(Opened) = 1
          /\ \A e \in Opened : /\ encoders[e].file = ScenarioFile
                               /\ encoders[e].state = "closed"

\* C4: start_recording while the controller's recording flag is set fails
\* with InvalidStateError, enqueues nothing and leaves started, recording and
\* the queue as they were.
C4_StartRecordingWhileRecording ==
    [][(pc = "body" /\ op = "start_recording" /\ recording /\ CallerStep)
          => (/\ result' = "InvalidStateError"
              /\ UNCHANGED <<started, recording, cmd_q, buffer, enqueued>>)]_vars

\* A second start_recording has failed on a started, recording recorder, and
\* one Start only has ever been enqueued.
C4_Witness ==
    /\ pc = "idle" /\ op = "start_recording" /\ result = "InvalidStateError"
    /\ started /\ recording
    /\ Len(enqueued) = 1 /\ enqueued[1].tag = "start"

\* C5: stop_recording while the controller's recording flag is clear fails
\* with InvalidStateError, enqueues no Stop and leaves started, recording and
\* the queue as they were.
C5_StopRecordingWhileNotRecording ==
    [][(pc = "body" /\ op = "stop_recording" /\ ~recording /\ CallerStep)
          => (/\ result' = "InvalidStateError"
              /\ UNCHANGED <<started, recording, cmd_q, buffer, enqueued>>)]_vars

\* stop_recording has failed on a started recorder that is not recording.
C5_Witness ==
    /\ pc = "idle" /\ op = "stop_recording" /\ result = "InvalidStateError"
    /\ started /\ ~recording
    /\ \A i \in 1..Len(enqueued) : enqueued[i].tag = "start"

\* C6: start_recording on a recorder that is not started fails with
\* InvalidStateError, enqueues nothing and leaves the recording flag as it was.
C6_StartRecordingBeforeStart ==
    [][(pc = "body" /\ op = "start_recording" /\ ~started /\ CallerStep)
          => (/\ result' = "InvalidStateError"
              /\ UNCHANGED <<started, recording, cmd_q, buffer, enqueued>>)]_vars

\* start_recording has failed on a recorder never started.
C6_Witness ==
    /\ pc = "idle" /\ op = "start_recording" /\ result = "InvalidStateError"
    /\ ~started /\ ~recording /\ camera = 0 /\ enqueued = <<>>

\* C7: stop() on a recorder that is not started fails with InvalidStateError
\* and changes nothing: the camera is not released, no process is terminated.
C7_StopBeforeStart ==
    [][(pc = "body" /\ op = "stop" /\ ~started /\ CallerStep)
          => (/\ result' = "InvalidStateError"
              /\ pc' = "idle"
              /\ UNCHANGED <<started, recording, cmd_q, buffer, actual_camera, camera,
                             procs, encoders>>)]_vars

\* stop() has failed right after construction, the camera still open.
C7_Witness ==
    /\ pc = "idle" /\ op = "stop" /\ result = "InvalidStateError"
    /\ ~started /\ camera = 0 /\ actual_camera

\* C8: a successful stop() clears started, releases the camera and terminates
\* the _Camera process it holds, which takes no step from then on; stop()
\* leaves the queue, the controller's recording flag and every video writer
\* as they were.
C8_StopHardTerminates ==
    [][/\ (pc = "body" /\ op = "stop" /\ started /\ CallerStep)
            => (/\ ~started' /\ ~actual_camera' /\ pc' = "terminate"
                /\ UNCHANGED <<cmd_q, buffer, recording, encoders, procs, camera>>)
       /\ (pc = "terminate" /\ CallerStep)
            => (/\ pc' = "idle" /\ result' = "ok"
                /\ ~started' /\ ~actual_camera'
                /\ procs'[camera].status # "alive"
                /\ \A w \in Workers :
                      /\ procs'[w].recording = procs[w].recording
                      /\ procs'[w].out = procs[w].out
                      /\ procs'[w].cmd = procs[w].cmd
                      /\ (w # camera => procs'[w] = procs[w])
                /\ UNCHANGED <<cmd_q, buffer, recording, encoders, camera>>)
       /\ \A w \in Workers :
            procs[w].status = "terminated" => procs'[w] = procs[w]
      ]_vars

\* stop() has returned having killed a process that was recording: its video
\* writer is still open and a command is still on the queue.
C8_Witness ==
    /\ pc = "idle" /\ op = "stop" /\ result = "ok"
    /\ procs[camera].status = "terminated"
    /\ procs[camera].recording
    /\ encoders[procs[camera].out].state = "open"
    /\ Waiting # <<>>

\* What a call returns, from the controller's two flags alone.
Expected(o, s, r) ==
    CASE o = "start_recording" -> IF s /\ ~r THEN "ok" ELSE "InvalidStateError"
      [] o = "stop_recording" -> IF r THEN "ok" ELSE "InvalidStateError"
      [] o = "stop" -> IF s THEN "ok" ELSE "InvalidStateError"

\* C9: a _Camera whose video writer does not open on Start ends with
\* EncoderOpenError, its recording flag not set by that step, and takes no
\* step afterwards; the failure changes neither flag of the controller, and
\* the calls made afterwards return what the two flags alone decide.
C9_EncoderOpenFailure ==
    [][/\ \A w \in Workers :
            (/\ Len(encoders') = Len(encoders) + 1
             /\ encoders'[Len(encoders')].state = "unopened"
             /\ procs'[w] # procs[w])
               => procs'[w].error = "EncoderOpenError"
       /\ \A w \in Workers :
            (procs[w].error = "none" /\ procs'[w].error = "EncoderOpenError")
               => (/\ procs[w].cmd.tag = "start"
                   /\ procs'[w].status = "raised"
                   /\ procs'[w].recording = procs[w].recording
                   /\ UNCHANGED <<started, recording, cmd_q, buffer, pc, result>>)
       /\ \A w \in Workers :
            procs[w].status = "raised" => procs'[w] = procs[w]
       /\ (/\ pc # "idle" /\ pc' = "idle" /\ op # "start"
           /\ \E w \in Workers : procs[w].error = "EncoderOpenError")
            => result' = Expected(op, started \/ pc = "terminate", recording)
      ]_vars

\* A _Camera has ended with EncoderOpenError and the caller, none the wiser,
\* is in stop_recording() on a recorder that is started and recording.
C9_Witness ==
    /\ \E w \in Workers : procs[w].error = "EncoderOpenError" /\ ~procs[w].recording
    /\ pc = "body" /\ op = "stop_recording" /\ started /\ recording

\* C10 (as claimed): the controller's recording flag is set only while the
\* recorder is started, so no start_recording or stop_recording succeeds on a
\* recorder that is not started.
C10_RecordingImpliesStarted ==
    /\ recording => (started \/ pc = "terminate")
    /\ (pc = "idle" /\ op \in {"start_recording", "stop_recording"} /\ result = "ok")
          => started


Alive == {w \in Workers : procs[w].status = "alive"}

Alternates(q) == \A i \in 1..(Len(q) - 1) : q[i].tag # q[i + 1].tag

\* Positions of q holding a Start that no Stop follows.
OpenStarts(q) ==
    {i \in 1..Len(q) : q[i].tag = "start" /\ (i = Len(q) \/ q[i + 1].tag # "stop")}

\* C11: the commands waiting in the queue alternate between Start and Stop,
\* with at most one Start not followed by a Stop; the last command enqueued
\* is a Start when the controller's recording flag is set and a Stop (if
\* there is one) when it is clear, whatever stop()/start() cycles came before.
C11_QueueAlternates ==
    /\ Alternates(Waiting)
    /\ Cardinality(OpenStarts(Waiting)) <= 1
    /\ recording => (enqueued # <<>> /\ enqueued[Len(enqueued)].tag = "start")
    /\ (~recording /\ enqueued # <<>>) => enqueued[Len(enqueued)].tag = "stop"

\* After a stop()/start() cycle, three stale and fresh commands wait in the
\* queue of a recorder that is recording.
C11_Witness ==
    /\ camera = 2 /\ procs[1].status = "terminated"
    /\ started /\ recording /\ pc = "idle"
    /\ Len(Waiting) = 3

\* C12: at the top of its loop a running _Camera has its recording flag set
\* exactly when it holds a video writer that is open.
C12_FlagIffOpenEncoder ==
    \A w \in Workers :
        (procs[w].status = "alive" /\ procs[w].pc = "poll")
           => (procs[w].recording
                  <=> (procs[w].out # 0 /\ encoders[procs[w].out].state = "open"))

\* A _Camera is back at the top of its loop after a Stop: its writer is
\* released and its flag clear, while it had written a frame before.
C12_Witness ==
    \E w \in Workers :
        /\ procs[w].status = "alive" /\ procs[w].pc = "poll"
        /\ ~procs[w].recording /\ procs[w].out # 0
        /\ encoders[procs[w].out].state = "closed"
        /\ encoders[procs[w].out].frames >= 1

\* C13 (as claimed): at most one _Camera process is alive at any time, and
\* none is alive once stop() has returned.
C13_AtMostOneWorker ==
    /\ Cardinality(Alive) <= 1
    /\ (~started /\ pc = "idle") => Alive = {}

\* C14 (as claimed): no _Camera reads a frame from a camera the controller
\* has released.
C14_NoReadOnReleasedCamera ==
    [][\A w \in Workers :
          (/\ procs[w].status = "alive" /\ procs[w].pc = "rec"
           /\ procs[w].recording
           /\ procs'[w].pc = "poll")
             => actual_camera]_vars

\* C15: a _Camera that takes a Stop while it has no video writer ends with
\* AttributeError: the Stop is not applied as a no-op, no writer and no queue
\* entry changes.  (Checked with a caller whose calls all return normally.)
C15_StopWithoutEncoderFaults ==
    [][\A w \in Workers :
          (/\ procs[w].status = "alive" /\ procs[w].pc = "cmd"
           /\ procs[w].cmd.tag = "stop" /\ procs[w].out = 0
           /\ ~CallerStep
           /\ procs'[w] # procs[w])
             => (/\ procs'[w].status = "raised"
                 /\ procs'[w].error = "AttributeError"
                 /\ UNCHANGED <<encoders, applied, cmd_q, buffer>>)]_vars

\* A _Camera has ended on a Stop taken with no writer, no call having raised.
C15_Witness ==
    /\ \E w \in Workers :
          /\ procs[w].error = "AttributeError"
          /\ procs[w].cmd.tag = "stop" /\ procs[w].out = 0
    /\ result # "InvalidStateError"

OpenFailed == \E w \in Workers : procs[w].error = "EncoderOpenError"

Settled ==
    /\ Waiting = <<>>
    /\ camera >= 1
    /\ procs[camera].recording = recording

\* C16 (as claimed): if from some point on the recorder stays started and the
\* caller makes no call, and no video writer fails to open, then the queue
\* gets empty with the worker's recording flag equal to the controller's.
C16_FlagsConverge ==
    []<>(~(started /\ pc = "idle") \/ OpenFailed \/ Settled)

\* C17 (as claimed): the get() of a _Camera that saw the queue non-empty
\* never waits: the queue is non-empty still when it calls get() and until
\* get() has received, and the queue's reader lock is free when it calls.
C17_GetNeverBlocks ==
    \A w \in Workers :
        procs[w].status = "alive" =>
            /\ (procs[w].pc \in {"get", "recv"}) => cmd_q # <<>>
            /\ (procs[w].pc = "get") => rlock = 0

\* C18: the frame step of a recording _Camera leaves its flag, its writer and
\* the queue as they were and returns to the top of the loop, the process
\* still running; it writes nothing, or one frame to its own writer.
C18_MissedFrameIsSkipped ==
    [][\A w \in Workers :
          (/\ procs[w].status = "alive" /\ procs[w].pc = "rec"
           /\ procs[w].recording
           /\ procs'[w] # procs[w] /\ ~CallerStep)
             => (/\ procs'[w] = [procs[w] EXCEPT !.pc = "poll"]
                 /\ UNCHANGED <<cmd_q, buffer>>
                 /\ \/ UNCHANGED encoders
                    \/ encoders' = [encoders EXCEPT ![procs[w].out].frames = @ + 1])
      ]_vars

\* A recording _Camera is back at the top of its loop, its capture open, and
\* its reads so far delivered no frame: still recording, its writer open.
C18_Witness ==
    \E w \in Workers :
        /\ procs[w].status = "alive" /\ procs[w].pc = "poll"
        /\ procs[w].recording /\ procs[w].capture
        /\ encoders[procs[w].out].state = "open"
        /\ encoders[procs[w].out].frames = 0

\* C19 (as claimed): no _Camera takes a Start while its recording flag is set.
C19_NoStartWhileRecording ==
    \A w \in Workers :
        (procs[w].status = "alive" /\ procs[w].pc = "cmd"
            /\ procs[w].cmd.tag = "start")
           => ~procs[w].recording

\* C20: a frame is written only to a video writer that is open, by the
\* recording _Camera that holds it.
C20_WritesOnlyToOpenEncoder ==
    [][/\ Len(encoders') >= Len(encoders)
       /\ \A e \in 1..Len(encoders) :
            encoders'[e].frames # encoders[e].frames
               => (/\ encoders[e].state = "open"
                   /\ \E w \in Workers :
                         /\ procs[w].status = "alive" /\ procs[w].pc = "rec"
                         /\ procs[w].recording /\ procs[w].out = e)
      ]_vars

\* A writer has taken a frame and has been released since.
C20_Witness ==
    \E e \in 1..Len(encoders) :
        encoders[e].frames >= 1 /\ encoders[e].state = "closed"

====
